---- MODULE Spec2Model ----
(***************************************************************************)
(* BreatheAudio 6-zone amplifier driver.                                   *)
(*                                                                         *)
(* Transport part: the callers of one controller, in the blocking mode     *)
(* (get_breatheaudio: an RLock around every operation, a serial port read  *)
(* one byte at a time) and in the event-driven mode                        *)
(* (get_async_breatheaudio: an asyncio.Lock around every operation, a      *)
(* second asyncio.Lock inside BreatheAudioProtocol.send, inbound chunks    *)
(* pushed through data_received into an asyncio.Queue).                    *)
(***************************************************************************)
EXTENDS Integers, Sequences, FiniteSets, TLC

\* ------------------------------------------------------------------ bounds
NumCallers == 2     \* concurrent callers (threads, or tasks) of one controller
MaxCalls == 2       \* controller operations started in one run
MaxBuf == 1         \* bytes the serial input buffer holds
MaxPuts == 1        \* q.put tasks scheduled and not yet run
MaxQ == 1           \* chunks held by the protocol's queue
MaxResult == 2      \* trailing bytes of `result` the model keeps
MaxReply == 2       \* bytes a pausing device sends per request
MaxLate == 1        \* how many requests back a late reply may belong to

\* ------------------------------------------------------- program constants
EOL == "\r"
LEN_EOL == 1

\* The characters the device sends in this part: one that is no terminator,
\* and the terminator.
WireChars == {"x", EOL}

Callers == 1..NumCallers
NoOne == 0

SingleOps == {"zone_status", "set_power"}
Ops == SingleOps \cup {"restore_zone"}

\* The attributes ZoneStatus.__init__ sets; the rest is commented out there.
ZoneStatusAttrs == {"zone", "volume", "power", "mute", "source"}

\* restore_zone: the operation of each replay step and the attribute of the
\* status record it reads, in program order.
RestoreSteps ==
    << [op |-> "set_power",   attr |-> "power"],
       [op |-> "set_mute",    attr |-> "mute"],
       [op |-> "set_volume",  attr |-> "volume"],
       [op |-> "set_treble",  attr |-> "treble"],
       [op |-> "set_bass",    attr |-> "bass"],
       [op |-> "set_balance", attr |-> "balance"],
       [op |-> "set_source",  attr |-> "source"] >>

VARIABLES
    mode,       \* "sync" (get_breatheaudio) or "async" (get_async_breatheaudio)
    stream,     \* TRUE: the device may send without ever pausing
    pc,         \* pc[c]: where caller c is
    call,       \* call[c]: the operation c runs, its replay step, frames written
    rlock,      \* the RLock of get_breatheaudio: owner and recursion count
    alock,      \* the asyncio.Lock of get_async_breatheaudio: its holder
    plock,      \* BreatheAudioProtocol._lock: its holder
    waiters,    \* callers queued on alock, in arrival order
    inbuf,      \* the serial port's input buffer
    puts,       \* chunks of data_received whose q.put task has not run yet
    q,          \* BreatheAudioProtocol.q
    result,     \* result[c]: the bytearray of c's transaction
    txn,        \* txn[c]: the number of the request c wrote last
    ntxn,       \* requests written so far
    calls,      \* operations started so far
    wire,       \* the requests written, in order
    sent,       \* bytes the device sent since the last request
    out,        \* out[c]: what the thread or task of c returned or raised last
    \* -- framing part: both read loops on one inbound stream
    fchunks,    \* the inbound bytes, in the chunks the port delivers them in
    fop,        \* the operation whose reply is read
    fsync,      \* the read loop of _process_request: position, result, outcome
    fasync,     \* the read loop of send: position, result, outcome
    \* -- zone part: the media_player entities over the blocking controller
    dev,        \* dev[z]: the amplifier's state of zone z
    snap,       \* snap[z]: BreatheAudioZone._snapshot
    ent,        \* ent[z]: _state, _volume, _source, _mute of the entity
    fresh,      \* fresh[z]: snap[z] was captured and dev[z] has not changed since
    zcalls,     \* calls made into the entities and the service registry
    zlast,      \* the last entity method run: frames written, exception raised
    svc,        \* the last service request and whether it reached its entity
    \* -- codec part: one call of a codec function
    cin,        \* the function called and its arguments
    cout        \* what it returned or raised; then what was read back

tvars == << mode, stream, pc, call, rlock, alock, plock, waiters, inbuf, puts,
            q, result, txn, ntxn, calls, wire, sent, out >>

fvars == << fchunks, fop, fsync, fasync >>

zvars == << dev, snap, ent, fresh, zcalls, zlast, svc >>

cvars == << cin, cout >>

vars == << tvars, fvars, zvars, cvars >>

\* ------------------------------------------------------------------ helpers
\* A byte on the wire: its character, and the number of the request the
\* device sent it in answer to (0: none).
Byte(t, ch) == [t |-> t, ch |-> ch]

\* A byte the port has received from the device: the byte, and the number of
\* requests written on the connection when it arrived.
Received(b, n) == [t |-> b.t, ch |-> b.ch, at |-> n]

\* The model keeps the last MaxResult bytes of `result`: the framing test
\* reads its length against skip (0 or LEN_EOL) and its last LEN_EOL bytes.
Window(s) ==
    IF Len(s) <= MaxResult THEN s ELSE SubSeq(s, Len(s) - MaxResult + 1, Len(s))

\* result += ...
Accumulate(r, bytes) == Window(r \o bytes)

\* len(result) > skip and result[-LEN_EOL:] == EOL
Terminated(r, skip) == Len(r) > skip /\ r[Len(r)].ch = EOL

\* The skip argument each operation passes to the transport.
SyncSkip(name) == IF name = "zone_status" THEN LEN_EOL ELSE 0
AsyncSkip(name) == 0

\* The frame operation caller c is about to write.
FrameOp(c) ==
    IF call[c].name = "restore_zone" THEN RestoreSteps[call[c].step].op
    ELSE call[c].name

SkipOf(c) == IF mode = "sync" THEN SyncSkip(FrameOp(c)) ELSE AsyncSkip(FrameOp(c))

NoOut == [kind |-> "none", args |-> << >>]

InFlight(c) == pc[c] \in {"discard", "write", "read"}

\* --------------------------------------------------------------------- Init
TInit ==
    /\ mode \in {"sync", "async"}
    /\ stream \in BOOLEAN
    /\ pc = [c \in Callers |-> "idle"]
    /\ call = [c \in Callers |-> [name |-> "zone_status", step |-> 1, writes |-> 0]]
    /\ rlock = [owner |-> NoOne, count |-> 0]
    /\ alock = NoOne
    /\ plock = NoOne
    /\ waiters = << >>
    /\ inbuf = << >>
    /\ puts = << >>
    /\ q = << >>
    /\ result = [c \in Callers |-> << >>]
    /\ txn = [c \in Callers |-> 0]
    /\ ntxn = 0
    /\ calls = 0
    /\ wire = << >>
    /\ sent = 0
    /\ out = [c \in Callers |-> NoOut]

\* The framing part at rest.
FIdle ==
    /\ fchunks = << >>
    /\ fop = "zone_status"
    /\ fsync = [pos |-> 0, result |-> << >>, out |-> NoOut]
    /\ fasync = [pos |-> 0, result |-> << >>, out |-> NoOut]


\* ------------------------------------------------------------ the callers
\* A caller invokes a controller operation (the wrapper of synchronized or
\* locked_coro is entered and asks for the lock).
Call(c, name) ==
    /\ pc[c] = "idle"
    /\ calls < MaxCalls
    /\ calls' = calls + 1
    /\ call' = [call EXCEPT ![c] = [name |-> name, step |-> 1, writes |-> 0]]
    /\ out' = [out EXCEPT ![c] = NoOut]
    /\ pc' = [pc EXCEPT ![c] = "acquire"]
    /\ waiters' = IF mode = "async" THEN Append(waiters, c) ELSE waiters
    /\ UNCHANGED << mode, stream, rlock, alock, plock, inbuf, puts, q, result,
                    txn, ntxn, wire, sent >>
    /\ UNCHANGED << fvars, zvars, cvars >>

\* ---- blocking mode
\* (variant: an acquire that does not look at the owner)
RLockFreeAlways(c) == TRUE

\* RLock.acquire: free, or already owned by the calling thread.
\* (variant: a plain Lock, which its own holder cannot take again)
RLockFreeNotReentrant(c) == rlock.owner = NoOne

RLockFree(c) == rlock.owner \in {NoOne, c}

RLockAcquire(c) == [owner |-> c, count |-> rlock.count + 1]

\* (variant: a lock that is not re-entrant, one release frees it)
RLockReleaseAll(n) == [owner |-> NoOne, count |-> 0]

\* RLock.release, n times.
RLockRelease(n) ==
    IF rlock.count - n <= 0 THEN [owner |-> NoOne, count |-> 0]
    ELSE [owner |-> rlock.owner, count |-> rlock.count - n]

\* The wrappers the thread of c is inside (one per synchronized call).
Depth(c) == IF call[c].name = "restore_zone" /\ InFlight(c) THEN 2 ELSE 1

\* synchronized: with lock
SyncAcquire(c) ==
    /\ mode = "sync"
    /\ pc[c] = "acquire"
    /\ RLockFree(c)
    /\ rlock' = RLockAcquire(c)
    /\ pc' = [pc EXCEPT ![c] = IF call[c].name = "restore_zone" THEN "body" ELSE "discard"]
    /\ UNCHANGED << mode, stream, call, alock, plock, waiters, inbuf, puts, q,
                    result, txn, ntxn, calls, wire, sent, out >>
    /\ UNCHANGED << fvars, zvars, cvars >>

\* BreatheAudioSync.restore_zone, one replay step: reading an attribute the
\* status record does not have raises AttributeError out of the operation;
\* else the nested synchronized operation re-enters the lock.
SyncRestoreStep(c) ==
    /\ mode = "sync"
    /\ pc[c] = "body"
    /\ IF call[c].step > Len(RestoreSteps)
       THEN /\ rlock' = RLockRelease(1)
            /\ out' = [out EXCEPT ![c] = [kind |-> "done", args |-> << >>]]
            /\ pc' = [pc EXCEPT ![c] = "idle"]
       ELSE IF RestoreSteps[call[c].step].attr \notin ZoneStatusAttrs
       THEN /\ rlock' = RLockRelease(1)
            /\ out' = [out EXCEPT ![c] = [kind |-> "AttributeError", args |-> << >>]]
            /\ pc' = [pc EXCEPT ![c] = "idle"]
       ELSE /\ RLockFree(c)
            /\ rlock' = RLockAcquire(c)
            /\ out' = out
            /\ pc' = [pc EXCEPT ![c] = "discard"]
    /\ UNCHANGED << mode, stream, call, alock, plock, waiters, inbuf, puts, q,
                    result, txn, ntxn, calls, wire, sent >>
    /\ UNCHANGED << fvars, zvars, cvars >>

\* _process_request: reset_output_buffer, reset_input_buffer
SyncDiscard(c) ==
    /\ mode = "sync"
    /\ pc[c] = "discard"
    /\ inbuf' = << >>
    /\ pc' = [pc EXCEPT ![c] = "write"]
    /\ UNCHANGED << mode, stream, call, rlock, alock, plock, waiters, puts, q,
                    result, txn, ntxn, calls, wire, sent, out >>
    /\ UNCHANGED << fvars, zvars, cvars >>

\* _process_request: write, flush, result = bytearray()
SyncWrite(c) ==
    /\ mode = "sync"
    /\ pc[c] = "write"
    /\ ntxn' = ntxn + 1
    /\ txn' = [txn EXCEPT ![c] = ntxn + 1]
    /\ wire' = Append(wire, [c |-> c, op |-> FrameOp(c), t |-> ntxn + 1])
    /\ call' = [call EXCEPT ![c].writes = @ + 1]
    /\ result' = [result EXCEPT ![c] = << >>]
    /\ sent' = 0
    /\ pc' = [pc EXCEPT ![c] = "read"]
    /\ UNCHANGED << mode, stream, rlock, alock, plock, waiters, inbuf,
                    puts, q, calls, out >>
    /\ UNCHANGED << fvars, zvars, cvars >>

\* The end of a transaction that returned text r: the nested operation of
\* restore_zone returns into it, any other operation returns to its caller.
SyncReturn(c, r) ==
    /\ rlock' = RLockRelease(1)
    /\ out' = [out EXCEPT ![c] = [kind |-> "ok", args |-> << r >>]]
    /\ IF call[c].name = "restore_zone"
       THEN /\ call' = [call EXCEPT ![c].step = @ + 1]
            /\ pc' = [pc EXCEPT ![c] = "body"]
       ELSE /\ call' = call
            /\ pc' = [pc EXCEPT ![c] = "idle"]

\* _process_request: c = read(1) returned a byte
SyncRead(c) ==
    /\ mode = "sync"
    /\ pc[c] = "read"
    /\ inbuf # << >>
    /\ inbuf' = Tail(inbuf)
    /\ LET r == Accumulate(result[c], << Head(inbuf) >>) IN
         IF Terminated(r, SkipOf(c))
         THEN /\ result' = [result EXCEPT ![c] = << >>]
              /\ SyncReturn(c, r)
         ELSE /\ result' = [result EXCEPT ![c] = r]
              /\ UNCHANGED << call, pc, out, rlock >>
    /\ UNCHANGED << mode, stream, alock, plock, waiters, puts, q, txn, ntxn,
                    calls, wire, sent >>
    /\ UNCHANGED << fvars, zvars, cvars >>

\* (variant: an empty read is ignored and the loop reads again)
SyncTimeoutRetry(c) ==
    /\ mode = "sync"
    /\ pc[c] = "read"
    /\ inbuf = << >>
    /\ UNCHANGED tvars
    /\ UNCHANGED << fvars, zvars, cvars >>

\* (variant: the exception leaves the lock held)
SyncTimeoutKeepsLock(c) ==
    /\ mode = "sync"
    /\ pc[c] = "read"
    /\ inbuf = << >>
    /\ out' = [out EXCEPT ![c] = [kind |-> "Timeout", args |-> << result[c] >>]]
    /\ pc' = [pc EXCEPT ![c] = "idle"]
    /\ result' = [result EXCEPT ![c] = << >>]
    /\ UNCHANGED << mode, stream, call, rlock, alock, plock, waiters, inbuf,
                    puts, q, txn, ntxn, calls, wire, sent >>
    /\ UNCHANGED << fvars, zvars, cvars >>

\* (variant: after an empty read the request is sent again)
SyncTimeoutRewrite(c) ==
    /\ mode = "sync"
    /\ pc[c] = "read"
    /\ inbuf = << >>
    /\ pc' = [pc EXCEPT ![c] = "discard"]
    /\ result' = [result EXCEPT ![c] = << >>]
    /\ UNCHANGED << mode, stream, call, rlock, alock, plock, waiters, inbuf,
                    puts, q, txn, ntxn, calls, wire, sent, out >>
    /\ UNCHANGED << fvars, zvars, cvars >>

\* _process_request: read(1) returned nothing within the port timeout;
\* SerialTimeoutException carries the bytes of result and leaves every
\* `with lock` of the thread.
SyncTimeout(c) ==
    /\ mode = "sync"
    /\ pc[c] = "read"
    /\ inbuf = << >>
    /\ rlock' = RLockRelease(Depth(c))
    /\ out' = [out EXCEPT ![c] = [kind |-> "Timeout", args |-> << result[c] >>]]
    /\ pc' = [pc EXCEPT ![c] = "idle"]
    /\ result' = [result EXCEPT ![c] = << >>]
    /\ UNCHANGED << mode, stream, call, alock, plock, waiters, inbuf, puts, q,
                    txn, ntxn, calls, wire, sent >>
    /\ UNCHANGED << fvars, zvars, cvars >>

\* ---- event-driven mode
\* locked_coro: with (yield from lock). asyncio.Lock wakes its waiters in
\* arrival order.
AsyncAcquire(c) ==
    /\ mode = "async"
    /\ pc[c] = "acquire"
    /\ alock = NoOne
    /\ waiters # << >>
    /\ Head(waiters) = c
    /\ alock' = c
    /\ waiters' = Tail(waiters)
    /\ pc' = [pc EXCEPT ![c] = "body"]
    /\ UNCHANGED << mode, stream, call, rlock, plock, inbuf, puts, q, result,
                    txn, ntxn, calls, wire, sent, out >>
    /\ UNCHANGED << fvars, zvars, cvars >>

\* The body of an operation up to its first suspension. BreatheAudioAsync's
\* restore_zone reads the attribute of its replay step first (AttributeError
\* leaves the operation); then BreatheAudioProtocol.send takes the protocol
\* lock, resets the port's buffers, empties q and writes the request, with no
\* suspension in between.
AsyncSend(c) ==
    /\ mode = "async"
    /\ pc[c] = "body"
    /\ IF call[c].name = "restore_zone" /\ call[c].step > Len(RestoreSteps)
       THEN /\ alock' = NoOne
            /\ out' = [out EXCEPT ![c] = [kind |-> "done", args |-> << >>]]
            /\ pc' = [pc EXCEPT ![c] = "idle"]
            /\ UNCHANGED << call, plock, inbuf, q, result, txn, ntxn, wire, sent >>
       ELSE IF /\ call[c].name = "restore_zone"
               /\ RestoreSteps[call[c].step].attr \notin ZoneStatusAttrs
       THEN /\ alock' = NoOne
            /\ out' = [out EXCEPT ![c] = [kind |-> "AttributeError", args |-> << >>]]
            /\ pc' = [pc EXCEPT ![c] = "idle"]
            /\ UNCHANGED << call, plock, inbuf, q, result, txn, ntxn, wire, sent >>
       ELSE /\ plock = NoOne
            /\ plock' = c
            /\ inbuf' = << >>
            /\ q' = << >>
            /\ ntxn' = ntxn + 1
            /\ txn' = [txn EXCEPT ![c] = ntxn + 1]
            /\ wire' = Append(wire, [c |-> c, op |-> FrameOp(c), t |-> ntxn + 1])
            /\ call' = [call EXCEPT ![c].writes = @ + 1]
            /\ result' = [result EXCEPT ![c] = << >>]
            /\ sent' = 0
            /\ pc' = [pc EXCEPT ![c] = "read"]
            /\ UNCHANGED << alock, out >>
    /\ UNCHANGED << mode, stream, rlock, waiters, puts, calls >>
    /\ UNCHANGED << fvars, zvars, cvars >>

\* The end of a send that returned text r: both locks are left, unless the
\* send was a replay step of restore_zone, which goes on under the outer lock.
AsyncReturn(c, r) ==
    /\ plock' = NoOne
    /\ out' = [out EXCEPT ![c] = [kind |-> "ok", args |-> << r >>]]
    /\ IF call[c].name = "restore_zone"
       THEN /\ call' = [call EXCEPT ![c].step = @ + 1]
            /\ pc' = [pc EXCEPT ![c] = "body"]
            /\ alock' = alock
       ELSE /\ call' = call
            /\ alock' = NoOne
            /\ pc' = [pc EXCEPT ![c] = "idle"]

\* send: result += yield from wait_for(q.get(), TIMEOUT); the framing test
\* runs once per chunk.
AsyncGet(c) ==
    /\ mode = "async"
    /\ pc[c] = "read"
    /\ q # << >>
    /\ q' = Tail(q)
    /\ LET r == Accumulate(result[c], Head(q)) IN
         IF Terminated(r, SkipOf(c))
         THEN /\ result' = [result EXCEPT ![c] = << >>]
              /\ AsyncReturn(c, r)
         ELSE /\ result' = [result EXCEPT ![c] = r]
              /\ UNCHANGED << call, pc, out, alock, plock >>
    /\ UNCHANGED << mode, stream, rlock, waiters, inbuf, puts, txn, ntxn,
                    calls, wire, sent >>
    /\ UNCHANGED << fvars, zvars, cvars >>

\* send: wait_for timed out; the bytes of result are logged and
\* asyncio.TimeoutError is re-raised as it is, through both `with` blocks.
AsyncTimeout(c) ==
    /\ mode = "async"
    /\ pc[c] = "read"
    /\ q = << >>
    /\ plock' = NoOne
    /\ alock' = NoOne
    /\ out' = [out EXCEPT ![c] = [kind |-> "Timeout", args |-> << >>]]
    /\ pc' = [pc EXCEPT ![c] = "idle"]
    /\ result' = [result EXCEPT ![c] = << >>]
    /\ UNCHANGED << mode, stream, call, rlock, waiters, inbuf, puts, q, txn,
                    ntxn, calls, wire, sent >>
    /\ UNCHANGED << fvars, zvars, cvars >>

\* The serial transport reads what the port holds and calls data_received,
\* which schedules q.put(data).
DataReceived ==
    /\ mode = "async"
    /\ inbuf # << >>
    /\ Len(puts) < MaxPuts
    /\ puts' = Append(puts, inbuf)
    /\ inbuf' = << >>
    /\ UNCHANGED << mode, stream, pc, call, rlock, alock, plock, waiters, q,
                    result, txn, ntxn, calls, wire, sent, out >>
    /\ UNCHANGED << fvars, zvars, cvars >>

\* The event loop runs the oldest scheduled q.put.
RunPut ==
    /\ mode = "async"
    /\ puts # << >>
    /\ Len(q) < MaxQ
    /\ q' = Append(q, Head(puts))
    /\ puts' = Tail(puts)
    /\ UNCHANGED << mode, stream, pc, call, rlock, alock, plock, waiters,
                    inbuf, result, txn, ntxn, calls, wire, sent, out >>
    /\ UNCHANGED << fvars, zvars, cvars >>

\* --------------------------------------------------------------- the device
\* The requests a byte sent now may answer.
Answerable == { t \in 1..ntxn : t >= ntxn - MaxLate }

DeviceSend(t, ch) ==
    /\ t \in Answerable
    /\ Len(inbuf) < MaxBuf
    /\ stream \/ sent < MaxReply
    /\ inbuf' = Append(inbuf, Received(Byte(t, ch), ntxn))
    /\ sent' = IF stream THEN sent ELSE sent + 1
    /\ UNCHANGED << mode, stream, pc, call, rlock, alock, plock, waiters, puts,
                    q, result, txn, ntxn, calls, wire, out >>
    /\ UNCHANGED << fvars, zvars, cvars >>

\* The steps of the program: the callers, the event loop's callbacks.
Program ==
    \/ \E c \in Callers, name \in Ops : Call(c, name)
    \/ \E c \in Callers : SyncAcquire(c)
    \/ \E c \in Callers : SyncRestoreStep(c)
    \/ \E c \in Callers : SyncDiscard(c)
    \/ \E c \in Callers : SyncWrite(c)
    \/ \E c \in Callers : SyncRead(c)
    \/ \E c \in Callers : SyncTimeout(c)
    \/ \E c \in Callers : AsyncAcquire(c)
    \/ \E c \in Callers : AsyncSend(c)
    \/ \E c \in Callers : AsyncGet(c)
    \/ \E c \in Callers : AsyncTimeout(c)
    \/ DataReceived
    \/ RunPut

TNext ==
    \/ Program
    \/ \E t \in Answerable, ch \in WireChars : DeviceSend(t, ch)

\* The same program with a device that answers the newest request only (the
\* request a byte answers is history: no step of the program reads it).
LiveNext ==
    \/ Program
    \/ \E ch \in WireChars : DeviceSend(ntxn, ch)

\* ====================================================================
\* Framing part: the read loop of _process_request and the read loop of
\* send, run on the same inbound stream for the same operation. After the
\* stream the device stays silent.
\* ====================================================================

\* The byte strings of length n over the wire characters.
RECURSIVE ByteStrings(_)
ByteStrings(n) ==
    IF n = 0 THEN { << >> }
    ELSE { Append(s, Byte(0, ch)) : s \in ByteStrings(n - 1), ch \in WireChars }

\* The ways the port may deliver a byte string: as one chunk, or cut in two.
Chunkings(s) ==
    IF s = << >> THEN { << >> }
    ELSE { << s >> } \cup
         { << SubSeq(s, 1, k), SubSeq(s, k + 1, Len(s)) >> : k \in 1..(Len(s) - 1) }

\* Streams no longer than the bytes of `result` the model keeps.
FStreams == UNION { Chunkings(s) : s \in UNION { ByteStrings(n) : n \in 0..MaxResult } }

RECURSIVE Flatten(_)
Flatten(chunks) ==
    IF chunks = << >> THEN << >> ELSE Head(chunks) \o Flatten(Tail(chunks))

\* _process_request: c = read(1); result += c; the framing test
FSyncRead ==
    /\ fsync.out = NoOut
    /\ fsync.pos < Len(Flatten(fchunks))
    /\ LET r == Accumulate(fsync.result, << Flatten(fchunks)[fsync.pos + 1] >>) IN
         fsync' = [pos |-> fsync.pos + 1,
                   result |-> r,
                   out |-> IF Terminated(r, SyncSkip(fop))
                           THEN [kind |-> "ok", args |-> << r >>]
                           ELSE NoOut]
    /\ UNCHANGED << fchunks, fop, fasync, tvars, zvars, cvars >>

\* _process_request: read(1) returned nothing
FSyncTimeout ==
    /\ fsync.out = NoOut
    /\ fsync.pos = Len(Flatten(fchunks))
    /\ fsync' = [fsync EXCEPT !.out = [kind |-> "Timeout", args |-> << fsync.result >>]]
    /\ UNCHANGED << fchunks, fop, fasync, tvars, zvars, cvars >>

\* send: result += yield from wait_for(q.get(), TIMEOUT); the framing test
FAsyncGet ==
    /\ fasync.out = NoOut
    /\ fasync.pos < Len(fchunks)
    /\ LET r == Accumulate(fasync.result, fchunks[fasync.pos + 1]) IN
         fasync' = [pos |-> fasync.pos + 1,
                    result |-> r,
                    out |-> IF Terminated(r, AsyncSkip(fop))
                            THEN [kind |-> "ok", args |-> << r >>]
                            ELSE NoOut]
    /\ UNCHANGED << fchunks, fop, fsync, tvars, zvars, cvars >>

\* send: wait_for timed out
FAsyncTimeout ==
    /\ fasync.out = NoOut
    /\ fasync.pos = Len(fchunks)
    /\ fasync' = [fasync EXCEPT !.out = [kind |-> "Timeout", args |-> << >>]]
    /\ UNCHANGED << fchunks, fop, fsync, tvars, zvars, cvars >>

FNext == FSyncRead \/ FSyncTimeout \/ FAsyncGet \/ FAsyncTimeout


\* ====================================================================
\* Frame codec (pybreatheaudio): strings are sequences of characters.
\* ====================================================================
MAX_VOLUME == 78

Digits == << "0", "1", "2", "3", "4", "5", "6", "7", "8", "9" >>
DigitSet == { Digits[i] : i \in 1..10 }
Letters ==
    { "A", "B", "C", "D", "E", "F", "G", "H", "I", "J", "K", "L", "M", "N", "O",
      "P", "Q", "R", "S", "T", "U", "V", "W", "X", "Y", "Z",
      "a", "b", "c", "d", "e", "f", "g", "h", "i", "j", "k", "l", "m", "n", "o",
      "p", "q", "r", "s", "t", "u", "v", "w", "x", "y", "z" }

\* \d and \w of the reply patterns, on ASCII text
IsDigit(ch) == ch \in DigitSet
IsWord(ch) == ch \in DigitSet \cup Letters \cup { "_" }

\* int() of one digit
DigitVal(ch) == (CHOOSE i \in 1..10 : Digits[i] = ch) - 1

Max(a, b) == IF a >= b THEN a ELSE b
Min(a, b) == IF a <= b THEN a ELSE b

\* '{}'.format(n) of an integer
RECURSIVE FormatNat(_)
FormatNat(n) ==
    IF n < 10 THEN << Digits[n + 1] >>
    ELSE Append(FormatNat(n \div 10), Digits[(n % 10) + 1])

FormatInt(n) == IF n < 0 THEN << "-" >> \o FormatNat(0 - n) ELSE FormatNat(n)

\* '{:02}'.format(n) of an integer n >= 0
Format02(n) == IF n < 10 THEN << "0" >> \o FormatNat(n) ELSE FormatNat(n)

\* A number as Python holds it: an int n is [num |-> n, den |-> 1]; the float
\* a/b is held by its exact value [num |-> a, den |-> b], b > 0.
Rat(a, b) == [num |-> a, den |-> b]

\* The native volumes n for which the double 78 * ((n / 78 * 100) / 100), the
\* value _format_set_volume computes from the volume from_string decoded from
\* n, is below n (IEEE 754 binary64, round to nearest); for every other n in
\* 0..78 it is n, and for every integer percentage the double product
\* 78 * (p / 100) has the integer part of the exact product.
DoubleShort == { 13, 25, 26, 37, 45, 50, 52, 55, 57, 74 }

\* int(max(0, min(MAX_VOLUME * (volume / 100), MAX_VOLUME)))
NativeVolume(volume) ==
    LET exact == (MAX_VOLUME * volume.num) \div (volume.den * 100)
        n == volume.num \div 100
    IN  IF volume.num <= 0 THEN 0
        ELSE IF exact >= MAX_VOLUME THEN MAX_VOLUME
        ELSE IF volume.den = MAX_VOLUME /\ volume.num = n * 100 /\ n \in DoubleShort
        THEN n - 1
        ELSE exact

Chars_Z0 == << "*", "Z", "0" >>

format_zone_status_request(zone) ==
    Chars_Z0 \o FormatInt(zone) \o << "C", "O", "N", "S", "R", EOL >>

format_set_power(zone, power) ==
    Chars_Z0 \o FormatInt(zone)
        \o (IF power THEN << "O", "N" >> ELSE << "O", "F", "F" >>) \o << EOL >>

format_set_mute(zone, mute) ==
    Chars_Z0 \o FormatInt(zone)
        \o (IF mute THEN << "M", "T", "O", "N" >> ELSE << "M", "T", "O", "F", "F" >>)
        \o << EOL >>

\* (variant: the percentage is written as the native value, unscaled)
format_set_volume_unscaled(zone, volume) ==
    Chars_Z0 \o FormatInt(zone) \o << "V", "O", "L" >>
        \o Format02(Max(0, Min(volume.num \div volume.den, MAX_VOLUME))) \o << EOL >>

format_set_volume(zone, volume) ==
    Chars_Z0 \o FormatInt(zone) \o << "V", "O", "L" >>
        \o Format02(NativeVolume(volume)) \o << EOL >>

\* (variant: the source id is written as given)
format_set_source_unclamped(zone, source) ==
    Chars_Z0 \o FormatInt(zone) \o << "S", "R", "C" >>
        \o FormatInt(source) \o << EOL >>

format_set_source(zone, source) ==
    Chars_Z0 \o FormatInt(zone) \o << "S", "R", "C" >>
        \o FormatInt(Max(0, Min(source, 6))) \o << EOL >>

\* ---- ZoneStatus
None == [kind |-> "None"]

ZoneStatus(zone, volume, power, mute, source) ==
    [kind |-> "ZoneStatus", zone |-> zone, volume |-> volume, power |-> power,
     mute |-> mute, source |-> source]

\* The literal lit stands in s at position i.
LitAt(s, i, lit) ==
    /\ i + Len(lit) - 1 <= Len(s)
    /\ SubSeq(s, i, i + Len(lit) - 1) = lit

\* ZONE_PATTERN_OFF = '#Z0(\d)PWROFF' matches s at position i
MatchOff(s, i) ==
    /\ LitAt(s, i, << "#", "Z", "0" >>)
    /\ i + 3 <= Len(s)
    /\ IsDigit(s[i + 3])
    /\ LitAt(s, i + 4, << "P", "W", "R", "O", "F", "F" >>)

\* ZONE_PATTERN_ON = '#Z0(\d)PWRON,SRC(\d),GRP(\d),VOL-(\w\w),POFF' matches s
\* at position i
MatchOn(s, i) ==
    /\ i + 30 <= Len(s)
    /\ LitAt(s, i, << "#", "Z", "0" >>)
    /\ IsDigit(s[i + 3])
    /\ LitAt(s, i + 4, << "P", "W", "R", "O", "N", ",", "S", "R", "C" >>)
    /\ IsDigit(s[i + 13])
    /\ LitAt(s, i + 14, << ",", "G", "R", "P" >>)
    /\ IsDigit(s[i + 18])
    /\ LitAt(s, i + 19, << ",", "V", "O", "L", "-" >>)
    /\ IsWord(s[i + 24])
    /\ IsWord(s[i + 25])
    /\ LitAt(s, i + 26, << ",", "P", "O", "F", "F" >>)

\* re.search: the leftmost position a pattern matches at, 0 when none
SearchOff(s) ==
    LET at == { i \in 1..Len(s) : MatchOff(s, i) }
    IN  IF at = {} THEN 0 ELSE CHOOSE i \in at : \A j \in at : i <= j

SearchOn(s) ==
    LET at == { i \in 1..Len(s) : MatchOn(s, i) }
    IN  IF at = {} THEN 0 ELSE CHOOSE i \in at : \A j \in at : i <= j

\* (variant: only "MT" is taken for a mute sentinel)
from_string_one_sentinel(string) ==
    IF string = << >> THEN None
    ELSE IF SearchOff(string) # 0
    THEN LET i == SearchOff(string)
         IN  ZoneStatus(DigitVal(string[i + 3]), Rat(0, 1), FALSE, FALSE, 1)
    ELSE IF SearchOn(string) # 0
    THEN LET i == SearchOn(string)
             zone == DigitVal(string[i + 3])
             source == DigitVal(string[i + 13])
             tok == << string[i + 24], string[i + 25] >>
         IN  IF tok = << "M", "T" >>
             THEN ZoneStatus(zone, Rat(0, 1), TRUE, TRUE, source)
             ELSE IF IsDigit(tok[1]) /\ IsDigit(tok[2])
             THEN ZoneStatus(zone,
                             Rat((DigitVal(tok[1]) * 10 + DigitVal(tok[2])) * 100,
                                 MAX_VOLUME),
                             TRUE, FALSE, source)
             ELSE [kind |-> "ValueError"]
    ELSE None

\* ZoneStatus.from_string: a ZoneStatus, None, or the ValueError int() raises
\* on a volume token that is no number.
from_string(string) ==
    IF string = << >> THEN None
    ELSE IF SearchOff(string) # 0
    THEN LET i == SearchOff(string)
         IN  ZoneStatus(DigitVal(string[i + 3]), Rat(0, 1), FALSE, FALSE, 1)
    ELSE IF SearchOn(string) # 0
    THEN LET i == SearchOn(string)
             zone == DigitVal(string[i + 3])
             source == DigitVal(string[i + 13])
             tok == << string[i + 24], string[i + 25] >>
         IN  IF tok = << "M", "T" >> \/ tok = << "X", "M" >>
             THEN ZoneStatus(zone, Rat(0, 1), TRUE, TRUE, source)
             ELSE IF IsDigit(tok[1]) /\ IsDigit(tok[2])
             THEN ZoneStatus(zone,
                             Rat((DigitVal(tok[1]) * 10 + DigitVal(tok[2])) * 100,
                                 MAX_VOLUME),
                             TRUE, FALSE, source)
             ELSE [kind |-> "ValueError"]
    ELSE None

\* ====================================================================
\* Zone part: the media_player entities over the blocking controller
\* (__init__.py: async_setup_entry uses get_breatheaudio), one entity method
\* per step, against an amplifier that keeps a state per zone.
\* ====================================================================
NumZones == 2       \* zone entities of the model (the platform creates 6)
MaxZCalls == 2      \* calls made into the entities in one run
MaxFail == 3        \* the latest transaction of a restore that may get no reply

Zones == 1..NumZones

\* The source ids the configuration names.
SourceIds == { 1, 2 }

\* ---- the amplifier (wire protocol of the device: command set and reports)
DevState(power, mute, vol, source) ==
    [power |-> power, mute |-> mute, vol |-> vol, source |-> source]

\* The report the amplifier gives of a zone.
DevReport(z, d) ==
    IF ~d.power
    THEN << "#", "Z", "0" >> \o FormatNat(z) \o << "P", "W", "R", "O", "F", "F", EOL >>
    ELSE << "#", "Z", "0" >> \o FormatNat(z)
            \o << "P", "W", "R", "O", "N", ",", "S", "R", "C" >> \o FormatNat(d.source)
            \o << ",", "G", "R", "P", "0", ",", "V", "O", "L", "-" >>
            \o (IF d.mute THEN << "M", "T" >> ELSE Format02(d.vol))
            \o << ",", "P", "O", "F", "F", EOL >>

\* The command a frame carries, as the amplifier reads it: *Z0{zone}{body}\r
DevBody(frame) == SubSeq(frame, 5, Len(frame) - 1)

DevWellFormed(frame) ==
    /\ Len(frame) >= 6
    /\ SubSeq(frame, 1, 3) = << "*", "Z", "0" >>
    /\ IsDigit(frame[4])
    /\ DigitVal(frame[4]) \in 1..6
    /\ frame[Len(frame)] = EOL

\* The state of a zone after the amplifier has read body; bodies it does not
\* know leave the zone as it is.
DevApply(d, body) ==
    IF body = << "O", "N" >> THEN [d EXCEPT !.power = TRUE]
    ELSE IF body = << "O", "F", "F" >> THEN [d EXCEPT !.power = FALSE]
    ELSE IF body = << "M", "T", "O", "N" >> THEN [d EXCEPT !.mute = TRUE]
    ELSE IF body = << "M", "T", "O", "F", "F" >> THEN [d EXCEPT !.mute = FALSE]
    ELSE IF /\ Len(body) = 5
            /\ SubSeq(body, 1, 3) = << "V", "O", "L" >>
            /\ IsDigit(body[4]) /\ IsDigit(body[5])
            /\ DigitVal(body[4]) * 10 + DigitVal(body[5]) <= MAX_VOLUME
    THEN [d EXCEPT !.vol = DigitVal(body[4]) * 10 + DigitVal(body[5])]
    ELSE IF /\ Len(body) = 4
            /\ SubSeq(body, 1, 3) = << "S", "R", "C" >>
            /\ IsDigit(body[4])
            /\ DigitVal(body[4]) \in 1..6
    THEN [d EXCEPT !.source = DigitVal(body[4])]
    ELSE d

\* ---- the blocking transport, one whole transaction
\* The read loop of _process_request on the bytes `rest` the device sends,
\* after which it stays silent.
RECURSIVE ReadLoop(_, _, _)
ReadLoop(r, rest, skip) ==
    IF rest = << >> THEN [kind |-> "Timeout", args |-> << r >>]
    ELSE LET r2 == Append(r, Head(rest))
         IN  IF Terminated(r2, skip) THEN [kind |-> "ok", args |-> << r2 >>]
             ELSE ReadLoop(r2, Tail(rest), skip)

\* bytes of a text, and ret.decode('ascii')
Bytes(text) == [i \in 1..Len(text) |-> Byte(0, text[i])]
Text(r) == [i \in 1..Len(r) |-> r[i].ch]

\* What the amplifier does with a request, by the way it behaves:
\* "answer" (reads it and reports the zone), "silent" (does not react),
\* "garbled" (reads it and sends text that is no report).
DevAfter(d, request, how) ==
    IF how \in {"answer", "garbled"} /\ DevWellFormed(request)
    THEN DevApply(d, DevBody(request)) ELSE d

DevSends(z, d, request, how) ==
    IF ~DevWellFormed(request) \/ how = "silent" THEN << >>
    ELSE IF how = "garbled" THEN << "#", "?", EOL >>
    ELSE DevReport(z, DevAfter(d, request, how))

\* _process_request(request, skip): the text returned, or Timeout
process_request(z, d, request, skip, how) ==
    LET got == ReadLoop(<< >>, Bytes(DevSends(z, d, request, how)), skip)
    IN  IF got.kind = "ok" THEN [kind |-> "ok", text |-> Text(got.args[1])]
        ELSE [kind |-> "Timeout"]

\* BreatheAudioSync.zone_status: a ZoneStatus, None, or the exception raised
zone_status(z, d, how) ==
    LET got == process_request(z, d, format_zone_status_request(z), SyncSkip("zone_status"), how)
    IN  IF got.kind = "ok" THEN from_string(got.text) ELSE got

\* The request of a replay step of restore_zone.
ReplayFrame(op, zone, value) ==
    CASE op = "set_power" -> format_set_power(zone, value)
      [] op = "set_mute" -> format_set_mute(zone, value)
      [] op = "set_volume" -> format_set_volume(zone, value)
      [] op = "set_source" -> format_set_source(zone, value)
      [] OTHER -> << >>

HasAttr(status, a) == status.kind = "ZoneStatus" /\ a \in ZoneStatusAttrs

\* BreatheAudioSync.restore_zone from replay step i on: the zone's state, the
\* frames written and the exception raised ("none": it returned). The
\* transaction numbered `fail` gets no reply.
RECURSIVE restore_zone(_, _, _, _, _)
restore_zone(i, status, d, frames, fail) ==
    IF i > Len(RestoreSteps) THEN [dev |-> d, frames |-> frames, exc |-> "none"]
    ELSE IF ~HasAttr(status, "zone") \/ ~HasAttr(status, RestoreSteps[i].attr)
    THEN [dev |-> d, frames |-> frames, exc |-> "AttributeError"]
    ELSE LET frame == ReplayFrame(RestoreSteps[i].op, status.zone,
                                  status[RestoreSteps[i].attr])
             how == IF fail = Len(frames) + 1 THEN "silent" ELSE "answer"
             got == process_request(status.zone, d, frame,
                                    SyncSkip(RestoreSteps[i].op), how)
         IN  IF got.kind = "Timeout"
             THEN [dev |-> d, frames |-> Append(frames, frame), exc |-> "Timeout"]
             ELSE restore_zone(i + 1, status, DevAfter(d, frame, how),
                               Append(frames, frame), fail)

\* ---- the entities (media_player.BreatheAudioZone)
NoCall == [op |-> "none", zone |-> 0, frames |-> << >>, exc |-> "none",
           had |-> FALSE, fresh |-> FALSE, got |-> "none"]
NoSvc == [name |-> "none", zone |-> 0, reached |-> FALSE]

Called(op, z, frames, exc) ==
    [op |-> op, zone |-> z, frames |-> frames, exc |-> exc,
     had |-> snap[z] # None, fresh |-> fresh[z], got |-> "none"]

\* An attribute of an entity that holds a value (None: it holds none).
Some(x) == [kind |-> "Some", val |-> x]

\* if self._snapshot:
Truthy(x) == x # None

\* (variant: one snapshot slot shared by the zone entities)
DoSnapshotShared(z, how) ==
    LET got == zone_status(z, dev[z], how)
        exc == IF got.kind \in {"Timeout", "ValueError"} THEN got.kind ELSE "none"
    IN  /\ snap' = IF exc = "none" THEN [y \in Zones |-> got] ELSE snap
        /\ fresh' = IF exc = "none" THEN [fresh EXCEPT ![z] = (got # None)] ELSE fresh
        /\ zlast' = [Called("snapshot", z, << format_zone_status_request(z) >>, exc)
                        EXCEPT !.got = got.kind]
        /\ UNCHANGED << dev, ent >>

\* snapshot(): self._snapshot = self._breatheaudio.zone_status(self._zone_id)
DoSnapshot(z, how) ==
    LET got == zone_status(z, dev[z], how)
        exc == IF got.kind \in {"Timeout", "ValueError"} THEN got.kind ELSE "none"
    IN  /\ snap' = IF exc = "none" THEN [snap EXCEPT ![z] = got] ELSE snap
        /\ fresh' = IF exc = "none" THEN [fresh EXCEPT ![z] = (got # None)] ELSE fresh
        /\ zlast' = [Called("snapshot", z, << format_zone_status_request(z) >>, exc)
                        EXCEPT !.got = got.kind]
        /\ UNCHANGED << dev, ent >>

\* (variant: restore without the test of the slot, replaying a powered-off zone)
DoRestoreUnguarded(z, fail) ==
    LET status == IF snap[z] # None THEN snap[z]
                  ELSE ZoneStatus(z, Rat(0, 1), FALSE, FALSE, 1)
        got == restore_zone(1, status, dev[z], << >>, fail)
    IN  /\ dev' = [dev EXCEPT ![z] = got.dev]
        /\ fresh' = [fresh EXCEPT ![z] = FALSE]
        /\ zlast' = Called("restore", z, got.frames, got.exc)
        /\ UNCHANGED << snap, ent >>

\* restore(): if self._snapshot: restore_zone(self._snapshot);
\* schedule_update_ha_state(True)
DoRestore(z, fail) ==
    IF Truthy(snap[z])
    THEN LET got == restore_zone(1, snap[z], dev[z], << >>, fail)
         IN  /\ dev' = [dev EXCEPT ![z] = got.dev]
             /\ fresh' = [fresh EXCEPT ![z] = FALSE]
             /\ zlast' = Called("restore", z, got.frames, got.exc)
             /\ UNCHANGED << snap, ent >>
    ELSE /\ zlast' = Called("restore", z, << >>, "none")
         /\ UNCHANGED << dev, snap, ent, fresh >>

\* How the amplifier may behave in one transaction.
Hows == {"answer", "silent", "garbled"}

\* The transactions of one restore that may stay without reply (0: none).
Fails == 0..MaxFail

Snapshot(z) ==
    /\ zcalls < MaxZCalls
    /\ zcalls' = zcalls + 1
    /\ \E how \in Hows : DoSnapshot(z, how)
    /\ UNCHANGED << svc, tvars, fvars, cvars >>

Restore(z) ==
    /\ zcalls < MaxZCalls
    /\ zcalls' = zcalls + 1
    /\ \E fail \in Fails : DoRestore(z, fail)
    /\ UNCHANGED << svc, tvars, fvars, cvars >>

\* One set_* operation of the controller called by an entity method.
DoSet(op, z, frame, how) ==
    LET got == process_request(z, dev[z], frame, SyncSkip(op), how)
    IN  /\ dev' = [dev EXCEPT ![z] = DevAfter(dev[z], frame, how)]
        /\ fresh' = [fresh EXCEPT ![z] = fresh[z] /\ dev'[z] = dev[z]]
        /\ zlast' = Called(op, z, << frame >>, IF got.kind = "Timeout" THEN "Timeout" ELSE "none")
        /\ UNCHANGED << snap, ent >>

\* turn_on(), turn_off()
TurnOnOff(z, power) ==
    /\ zcalls < MaxZCalls
    /\ zcalls' = zcalls + 1
    /\ \E how \in {"answer", "silent"} :
          DoSet("set_power", z, format_set_power(z, power), how)
    /\ UNCHANGED << svc, tvars, fvars, cvars >>

\* mute_volume(mute)
MuteVolume(z, mute) ==
    /\ zcalls < MaxZCalls
    /\ zcalls' = zcalls + 1
    /\ \E how \in {"answer", "silent"} :
          DoSet("set_mute", z, format_set_mute(z, mute), how)
    /\ UNCHANGED << svc, tvars, fvars, cvars >>

\* (variant: the timeout of the status query is not caught)
UpdateUncaught(z) ==
    /\ zcalls < MaxZCalls
    /\ zcalls' = zcalls + 1
    /\ \E how \in Hows :
          LET state == zone_status(z, dev[z], how)
          IN  /\ ent' = IF state.kind = "ZoneStatus"
                        THEN [ent EXCEPT ![z] =
                                [state |-> Some(IF state.power THEN "on" ELSE "off"),
                                 volume |-> Some(Rat(state.volume.num,
                                                     state.volume.den * 100)),
                                 source |-> IF state.source \in SourceIds
                                            THEN Some(state.source)
                                            ELSE None,
                                 mute |-> Some(state.mute)]]
                        ELSE ent
              /\ zlast' = [Called("update", z, << format_zone_status_request(z) >>,
                                  CASE state.kind = "ZoneStatus" -> "none"
                                    [] state.kind = "Timeout" -> "Timeout"
                                    [] state.kind = "None" -> "AttributeError"
                                    [] OTHER -> state.kind)
                            EXCEPT !.got = state.kind]
    /\ UNCHANGED << dev, snap, fresh, svc, tvars, fvars, cvars >>

\* update(): zone_status, SerialException caught; then the attributes of the
\* entity are set from the status (AttributeError on None).
Update(z) ==
    /\ zcalls < MaxZCalls
    /\ zcalls' = zcalls + 1
    /\ \E how \in Hows :
          LET state == zone_status(z, dev[z], how)
          IN  /\ ent' = IF state.kind = "ZoneStatus"
                        THEN [ent EXCEPT ![z] =
                                [state |-> Some(IF state.power THEN "on" ELSE "off"),
                                 volume |-> Some(Rat(state.volume.num,
                                                     state.volume.den * 100)),
                                 source |-> IF state.source \in SourceIds
                                            THEN Some(state.source)
                                            ELSE None,
                                 mute |-> Some(state.mute)]]
                        ELSE ent
              /\ zlast' = [Called("update", z, << format_zone_status_request(z) >>,
                                  CASE state.kind = "ZoneStatus" -> "none"
                                    [] state.kind = "Timeout" -> "none"
                                    [] state.kind = "None" -> "AttributeError"
                                    [] OTHER -> state.kind)
                            EXCEPT !.got = state.kind]
    /\ UNCHANGED << dev, snap, fresh, svc, tvars, fvars, cvars >>

\* Someone changes the zone at the amplifier (keypad, remote control).
ExternalChange(z) ==
    /\ zcalls < MaxZCalls
    /\ zcalls' = zcalls + 1
    /\ \E d \in { [dev[z] EXCEPT !.power = ~@],
                  [dev[z] EXCEPT !.vol = (@ + 1) % (MAX_VOLUME + 1)],
                  [dev[z] EXCEPT !.source = (@ % 6) + 1] } :
          dev' = [dev EXCEPT ![z] = d]
    /\ fresh' = [fresh EXCEPT ![z] = FALSE]
    /\ zlast' = Called("external", z, << >>, "none")
    /\ UNCHANGED << snap, ent, svc, tvars, fvars, cvars >>

\* ---- the services of the platform (media_player.async_setup_entry)
ServiceNames == {"snapshot", "restore"}

\* hass.services.async_register: the registration of SERVICE_SNAPSHOT is
\* commented out.
Registered == {"restore"}

\* A service request for one zone entity: async_service_handle runs
\* _call_service when the service is registered.
ServiceCall(name, z) ==
    /\ zcalls < MaxZCalls
    /\ zcalls' = zcalls + 1
    /\ IF name \in Registered
       THEN /\ svc' = [name |-> name, zone |-> z, reached |-> TRUE]
            /\ IF name = "snapshot"
               THEN \E how \in Hows : DoSnapshot(z, how)
               ELSE \E fail \in Fails : DoRestore(z, fail)
       ELSE /\ svc' = [name |-> name, zone |-> z, reached |-> FALSE]
            /\ UNCHANGED << dev, snap, ent, fresh, zlast >>
    /\ UNCHANGED << tvars, fvars, cvars >>

\* The zone states the first zone may start in: on and audible at every
\* native volume; off or muted with the volume kept at one of two values. The
\* other zones start on, unmuted, at half volume.
DevStart ==
    { d \in { DevState(p, m, v, s) : p \in BOOLEAN, m \in BOOLEAN,
                                     v \in 0..MAX_VOLUME, s \in SourceIds } :
        (d.power /\ ~d.mute) \/ d.vol \in {0, 39} }

ZIdle ==
    /\ dev = [z \in Zones |-> DevState(TRUE, FALSE, 39, 1)]
    /\ snap = [z \in Zones |-> None]
    /\ ent = [z \in Zones |-> [state |-> None, volume |-> None, source |-> None, mute |-> None]]
    /\ fresh = [z \in Zones |-> FALSE]
    /\ zcalls = 0
    /\ zlast = NoCall
    /\ svc = NoSvc

ZNext ==
    \/ \E z \in Zones : Snapshot(z)
    \/ \E z \in Zones : Restore(z)
    \/ \E z \in Zones, power \in BOOLEAN : TurnOnOff(z, power)
    \/ \E z \in Zones, mute \in BOOLEAN : MuteVolume(z, mute)
    \/ \E z \in Zones : Update(z)
    \/ \E z \in Zones : ExternalChange(z)
    \/ \E z \in Zones, name \in ServiceNames : ServiceCall(name, z)


\* ====================================================================
\* Codec part: one call of a codec function on an argument out of a bounded
\* set, and the reading back of a volume written.
\* ====================================================================
MaxToken == 99      \* numeric volume tokens 00..MaxToken in the replies decoded
PctBelow == 50      \* requested percentages from -PctBelow ...
PctAbove == 150     \* ... to PctAbove
SrcBelow == 10      \* requested source ids from -SrcBelow ...
SrcAbove == 15      \* ... to SrcAbove

\* The zones of the amplifier.
ZoneIds == 1..6

\* '#Z0{z}PWROFF' and '#Z0{z}PWRON,SRC{s},GRP{g},VOL-{tok},POFF' with the
\* characters z, s, g and the token tok in the places of the patterns' groups
OffText(z) == << "#", "Z", "0", z, "P", "W", "R", "O", "F", "F" >>

OnText(z, src, g, tok) ==
    << "#", "Z", "0", z, "P", "W", "R", "O", "N", ",", "S", "R", "C", src,
       ",", "G", "R", "P", g, ",", "V", "O", "L", "-" >> \o tok
       \o << ",", "P", "O", "F", "F" >>

NumericTokens == { Format02(n) : n \in 0..MaxToken }
MuteTokens == { << "M", "T" >>, << "X", "M" >> }

\* Tokens of two word characters that are neither, and two tokens with a
\* character that is no word character.
OtherTokens ==
    { << "A", "B" >>, << "1", "A" >>, << "_", "1" >>, << "m", "t" >>,
      << "-", "1" >>, << " ", "5" >> }

Tokens == NumericTokens \cup MuteTokens \cup OtherTokens

\* The strings decoded: every report the patterns can match on these digits
\* and tokens, with and without the terminator, and strings that are no
\* report.
ReplyStrings ==
    { OffText(z) \o e : z \in DigitSet, e \in { << >>, << EOL >> } }
    \cup { OnText(z, src, "0", tok) \o e :
             z \in DigitSet, src \in DigitSet, tok \in Tokens,
             e \in { << >>, << EOL >> } }
    \cup { << >>, << EOL >>, << "#", "?", EOL >>,
           << "x" >> \o OffText("2") \o << EOL >>,
           SubSeq(OnText("1", "1", "0", << "2", "0" >>), 1, 30),
           OnText("1", "1", "x", << "2", "0" >>),
           << "#", "Z", "0", "1", "P", "W", "R", "O", "N", EOL >> }

CodecInputs ==
    [fn : {"from_string"}, string : ReplyStrings]
    \cup [fn : {"format_set_volume"}, zone : ZoneIds,
          volume : (0 - PctBelow)..PctAbove]
    \cup [fn : {"format_set_source"}, zone : ZoneIds,
          source : (0 - SrcBelow)..SrcAbove]

Pending == [kind |-> "pending"]

CIdle ==
    /\ cin = [fn |-> "none"]
    /\ cout = Pending

CInit ==
    /\ TInit /\ mode = "sync" /\ stream = FALSE
    /\ FIdle
    /\ ZIdle
    /\ cin \in CodecInputs
    /\ cout = Pending

\* ZoneStatus.from_string(string)
FromString ==
    /\ cin.fn = "from_string"
    /\ cout = Pending
    /\ cout' = from_string(cin.string)
    /\ UNCHANGED << cin, tvars, fvars, zvars >>

\* _format_set_volume(zone, volume)
FormatSetVolume ==
    /\ cin.fn = "format_set_volume"
    /\ cout = Pending
    /\ cout' = [kind |-> "frame",
                frame |-> format_set_volume(cin.zone, Rat(cin.volume, 1))]
    /\ UNCHANGED << cin, tvars, fvars, zvars >>

\* _format_set_source(zone, source)
FormatSetSource ==
    /\ cin.fn = "format_set_source"
    /\ cout = Pending
    /\ cout' = [kind |-> "frame", frame |-> format_set_source(cin.zone, cin.source)]
    /\ UNCHANGED << cin, tvars, fvars, zvars >>

\* The two digits of the volume frame '*Z0{z}VOL{nn}\r' of a zone 1..6.
NativeToken(frame) == SubSeq(frame, 8, 9)

\* The native value written comes back in the zone's on-report and is
\* decoded: from_string('#Z0{z}PWRON,SRC1,GRP0,VOL-{nn},POFF\r').
ReadBack ==
    /\ cin.fn = "format_set_volume"
    /\ cout.kind = "frame"
    /\ cout' = [kind |-> "readback", frame |-> cout.frame,
                status |-> from_string(
                    OnText(Digits[cin.zone + 1], "1", "0", NativeToken(cout.frame))
                        \o << EOL >>)]
    /\ UNCHANGED << cin, tvars, fvars, zvars >>

CNext == FromString \/ FormatSetVolume \/ FormatSetSource \/ ReadBack

\* ====================================================================
\* Specifications
\* ====================================================================
Init == TInit /\ FIdle /\ ZIdle /\ CIdle

Next == TNext

\* The transport part, both modes.
Spec == Init /\ [][Next]_vars

\* One byte stream read by the read loops of both modes.
FInit ==
    /\ TInit
    /\ mode = "sync"
    /\ stream = FALSE
    /\ fchunks \in FStreams
    /\ fop \in SingleOps
    /\ fsync = [pos |-> 0, result |-> << >>, out |-> NoOut]
    /\ fasync = [pos |-> 0, result |-> << >>, out |-> NoOut]
    /\ ZIdle
    /\ CIdle

FramingSpec == FInit /\ [][FNext]_vars

\* The zone entities over the blocking controller and the amplifier.
ZInit ==
    /\ TInit /\ mode = "sync" /\ stream = FALSE
    /\ FIdle
    /\ \E d \in DevStart : dev = [z \in Zones |-> IF z = 1 THEN d ELSE DevState(TRUE, FALSE, 39, 1)]
    /\ snap = [z \in Zones |-> None]
    /\ ent = [z \in Zones |-> [state |-> None, volume |-> None, source |-> None, mute |-> None]]
    /\ fresh = [z \in Zones |-> FALSE]
    /\ zcalls = 0
    /\ zlast = NoCall
    /\ svc = NoSvc
    /\ CIdle

ZoneSpec == ZInit /\ [][ZNext]_vars

\* One call of a codec function.
CodecSpec == CInit /\ [][CNext]_vars

\* What a thread or task does of its own accord once its operation is called.
Step(c) ==
    \/ SyncAcquire(c) \/ SyncRestoreStep(c) \/ SyncDiscard(c) \/ SyncWrite(c)
    \/ SyncRead(c) \/ SyncTimeout(c)
    \/ AsyncAcquire(c) \/ AsyncSend(c) \/ AsyncGet(c) \/ AsyncTimeout(c)

\* Threads and tasks that can run do run, and so do the event loop's
\* callbacks. Callers need not call and the device need not send.
LiveSpec ==
    /\ Init
    /\ [][LiveNext]_vars
    /\ \A c \in Callers : WF_vars(Step(c))
    /\ WF_vars(DataReceived)
    /\ WF_vars(RunPut)

\* ====================================================================
\* Claims
\* ====================================================================

\* C1: on one connection at most one transaction is in flight at any time,
\* in both modes: no caller is inside its discard-write-read sequence while
\* another caller is inside its own.
C1_OneInFlight == Cardinality({ c \in Callers : InFlight(c) }) <= 1

\* C1 witness: a transaction is in flight while another caller waits for the
\* lock.
C1_Witness ==
    \E c, d \in Callers : c # d /\ pc[c] = "read" /\ pc[d] = "acquire"

\* C2 (as claimed): the text a transaction returns holds only bytes the
\* device sent in answer to that transaction's request (out[c] is the outcome
\* of the transaction numbered txn[c] until c's next request is written).
C2_OnlyOwnReply ==
    \A c \in Callers :
        (out[c].kind = "ok" /\ pc[c] # "read") =>
            \A i \in 1..Len(out[c].args[1]) : out[c].args[1][i].t = txn[c]

\* C11 (as claimed): every transaction discards stale input before it writes:
\* no byte the port received before the transaction's request was written is
\* part of the bytes the transaction has read or of the text it returns.
C11_NoStaleBytes ==
    \A c \in Callers :
        /\ pc[c] = "read" =>
              \A i \in 1..Len(result[c]) : result[c][i].at >= txn[c]
        /\ (out[c].kind = "ok" /\ pc[c] # "read") =>
              \A i \in 1..Len(out[c].args[1]) : out[c].args[1][i].at >= txn[c]

\* C12: no operation retries: a call of a single-transaction operation writes
\* its request frame at most once, exactly once when its transaction has
\* returned or timed out, and a Timeout ends the call (it reaches the caller)
\* with no second write.
C12_NoRetry ==
    \A c \in Callers :
        call[c].name \in SingleOps =>
            /\ call[c].writes <= 1
            /\ out[c].kind \in {"none", "ok", "Timeout"}
            /\ out[c].kind \in {"ok", "Timeout"} =>
                  (pc[c] = "idle" /\ call[c].writes = 1)
            /\ pc[c] = "read" => call[c].writes = 1

\* A call of a single-transaction operation has ended with Timeout, its one
\* frame on the wire.
C12_Witness ==
    \E c \in Callers :
        /\ call[c].name \in SingleOps
        /\ out[c].kind = "Timeout"
        /\ pc[c] = "idle"
        /\ call[c].writes = 1
        /\ \E i \in 1..Len(wire) : wire[i].c = c /\ wire[i].op = call[c].name

EndsByReplyOrTimeout ==
    [][\A c \in Callers :
          (InFlight(c) /\ ~InFlight(c)') =>
              \/ out'[c].kind = "Timeout"
              \/ /\ out'[c].kind = "ok"
                 /\ out'[c].args[1] # << >>
                 /\ out'[c].args[1][Len(out'[c].args[1])].ch = EOL]_vars

ReleasedOnTimeout ==
    [][\A c \in Callers :
          (InFlight(c) /\ out'[c].kind = "Timeout" /\ ~InFlight(c)') =>
              (rlock'.owner # c /\ alock' # c /\ plock' # c)]_vars

\* C4: a timed-out transaction releases the lock(s) it holds, and after a
\* timeout every caller waiting for the lock eventually acquires it and
\* starts its transaction, in both modes (the device pausing, so that the
\* transactions in between end).
C4_TimeoutReleasesLock ==
    /\ ReleasedOnTimeout
    /\ \A d \in Callers :
          (/\ pc[d] = "acquire"
           /\ ~stream
           /\ \E c \in Callers : out[c].kind = "Timeout")
              ~> InFlight(d)

\* C4 witness: one caller's transaction has timed out and another caller's
\* later transaction is reading.
C4_Witness ==
    \E c, d \in Callers :
        /\ c # d
        /\ out[c].kind = "Timeout"
        /\ pc[c] = "idle"
        /\ pc[d] = "read"
        /\ txn[d] > txn[c]

\* C10 (as claimed): the Timeout error delivered to the caller carries the
\* bytes the transaction had accumulated, in both modes.
C10_TimeoutCarriesBytes ==
    [][\A c \in Callers :
          (InFlight(c) /\ out'[c].kind = "Timeout" /\ ~InFlight(c)') =>
              out'[c].args = << result[c] >>]_vars

\* C5: restore(zone) on a zone that has a snapshot completes without raising
\* and issues exactly four transactions, in this order and with the captured
\* values: set_power, set_mute, set_volume, set_source (a restore in which a
\* transaction got no reply aside).
C5_RestoreReplaysFour ==
    (zlast.op = "restore" /\ zlast.had /\ zlast.exc # "Timeout") =>
        /\ zlast.exc = "none"
        /\ zlast.frames =
             << format_set_power(snap[zlast.zone].zone, snap[zlast.zone].power),
                format_set_mute(snap[zlast.zone].zone, snap[zlast.zone].mute),
                format_set_volume(snap[zlast.zone].zone, snap[zlast.zone].volume),
                format_set_source(snap[zlast.zone].zone, snap[zlast.zone].source) >>

\* |a - b| <= 100 / MAX_VOLUME, for percentages kept as fractions
WithinOneStep(a, b) ==
    LET diff == a.num * b.den - b.num * a.den
    IN  (IF diff < 0 THEN -diff ELSE diff) * MAX_VOLUME <= 100 * a.den * b.den

\* What the zone reports now, decoded.
Reported(z) == from_string(DevReport(z, dev[z]))

\* The last call was a restore of a zone whose snapshot was taken of the state
\* the amplifier still had, and every transaction of it got its reply.
RestoredFresh(z) ==
    /\ zlast.op = "restore" /\ zlast.zone = z
    /\ zlast.had /\ zlast.fresh
    /\ zlast.exc # "Timeout"

\* C6: snapshot(zone) followed by restore(zone), with no change to the device
\* in between, leaves the zone reporting the same power, mute and source as
\* were captured and a volume within one native step of the captured volume.
C6_SnapshotRestoreRoundTrip ==
    \A z \in Zones :
        RestoredFresh(z) =>
            /\ Reported(z).kind = "ZoneStatus"
            /\ Reported(z).power = snap[z].power
            /\ Reported(z).mute = snap[z].mute
            /\ Reported(z).source = snap[z].source
            /\ WithinOneStep(Reported(z).volume, snap[z].volume)

\* A zone captured on and audible at native volume 13 has been restored: the
\* volume frame carried 12, one native step below.
C6_Witness ==
    \E z \in Zones :
        /\ RestoredFresh(z)
        /\ snap[z].power /\ ~snap[z].mute
        /\ snap[z].volume = Rat(13 * 100, MAX_VOLUME)
        /\ dev[z].vol = 12
        /\ Len(zlast.frames) = 3

\* restore() of zone z is called, directly or through the platform's service.
RestoreCalled(z) == Restore(z) \/ ServiceCall("restore", z)

\* C7: restore(zone) on a zone for which no snapshot has been captured is a
\* no-op: it writes no frame, raises nothing and changes no state.
C7_RestoreWithoutSnapshotNoOp ==
    [][ \A z \in Zones :
          (RestoreCalled(z) /\ snap[z] = None) =>
              /\ zlast'.op = "restore" /\ zlast'.zone = z
              /\ zlast'.frames = << >>
              /\ zlast'.exc = "none"
              /\ dev' = dev /\ snap' = snap /\ ent' = ent ]_vars

\* restore() has been called on a zone with an empty snapshot slot, while the
\* amplifier had that zone switched on.
C7_Witness ==
    /\ zlast.op = "restore" /\ ~zlast.had
    /\ snap[zlast.zone] = None
    /\ dev[zlast.zone].power
    /\ zlast.frames = << >>

\* C8: both maintenance operations are invocable per zone: a snapshot request
\* and a restore request each reach the targeted zone entity.
C8_BothServicesReach == svc.name # "none" => svc.reached

\* C13 (as claimed): a status reply that matches neither reply pattern is never
\* fatal: a poll (update) whose reply decodes to absence returns without
\* raising and leaves the entity's power state, volume, mute and source as
\* they were.
C13_AbsenceNotFatal ==
    [][ \A z \in Zones :
          (Update(z) /\ zlast'.got = "None") =>
              (zlast'.exc = "none" /\ ent' = ent) ]_vars

\* The volume token of an on-report found in s.
TokenOf(s) == << s[SearchOn(s) + 24], s[SearchOn(s) + 25] >>

\* s holds an off-report, or an on-report whose volume token is a 2-digit
\* number or a mute sentinel.
Recognised(s) ==
    \/ SearchOff(s) # 0
    \/ /\ SearchOn(s) # 0
       /\ \/ TokenOf(s) \in MuteTokens
          \/ IsDigit(TokenOf(s)[1]) /\ IsDigit(TokenOf(s)[2])

\* C14 (as claimed): decoding never raises: from_string returns a ZoneStatus
\* or absence for every string, and absence for every string that is no
\* off-report and no on-report with a numeric or mute-sentinel volume token.
C14_DecodeNeverRaises ==
    (cin.fn = "from_string" /\ cout # Pending) =>
        /\ cout.kind \in {"ZoneStatus", "None"}
        /\ ~Recognised(cin.string) => cout = None

\* s is an off-report, or an on-report, by itself or followed by the
\* terminator.
IsOffReply(s) ==
    /\ Len(s) \in {10, 11}
    /\ IsDigit(s[4])
    /\ s \in { OffText(s[4]), OffText(s[4]) \o << EOL >> }

IsOnReply(s) ==
    /\ Len(s) \in {31, 32}
    /\ IsDigit(s[4]) /\ IsDigit(s[14]) /\ IsDigit(s[19])
    /\ LET on == OnText(s[4], s[14], s[19], << s[25], s[26] >>)
       IN  s \in { on, on \o << EOL >> }

\* The value of the numeric token of on-report s.
NativeOf(s) == DigitVal(s[25]) * 10 + DigitVal(s[26])

\* C15: decoding of well-formed replies matches the reference decoder: an
\* off-report for zone z gives {zone z, off, unmuted, volume 0, source 1}; an
\* on-report with a mute sentinel gives {on, muted, volume 0} with the
\* reported zone and source; an on-report with numeric token n in 0..78 gives
\* {on, unmuted, volume n*100/78} with the reported zone and source; with or
\* without the terminator.
C15_DecodeMatchesReference ==
    (cin.fn = "from_string" /\ cout # Pending) =>
        LET s == cin.string IN
        /\ IsOffReply(s) =>
              cout = ZoneStatus(DigitVal(s[4]), Rat(0, 1), FALSE, FALSE, 1)
        /\ (IsOnReply(s) /\ << s[25], s[26] >> \in MuteTokens) =>
              cout = ZoneStatus(DigitVal(s[4]), Rat(0, 1), TRUE, TRUE, DigitVal(s[14]))
        /\ (IsOnReply(s) /\ IsDigit(s[25]) /\ IsDigit(s[26])
                /\ NativeOf(s) <= MAX_VOLUME) =>
              /\ cout.kind = "ZoneStatus"
              /\ cout.zone = DigitVal(s[4]) /\ cout.source = DigitVal(s[14])
              /\ cout.power /\ ~cout.mute
              /\ cout.volume.num * MAX_VOLUME = NativeOf(s) * 100 * cout.volume.den

\* The on-report of zone 3 on source 5 with the second mute sentinel and the
\* terminator has been decoded.
C15_Witness ==
    /\ cin.fn = "from_string"
    /\ cin.string = OnText("3", "5", "0", << "X", "M" >>) \o << EOL >>
    /\ cout = ZoneStatus(3, Rat(0, 1), TRUE, TRUE, 5)

\* clamp(pct, 0, 100)
ClampPct(pct) == Max(0, Min(pct, 100))

\* round(clamp(pct, 0, 100) / 100 * 78), to the nearest integer, halves up
RoundedNative(pct) == (2 * MAX_VOLUME * ClampPct(pct) + 100) \div 200

\* C16 (as claimed): for every zone and every integer percentage requested,
\* in range or not, the VOL frame carries round(clamp(pct, 0, 100) / 100 * 78),
\* a value in 0..78 written as exactly two digits.
C16_VolumeEncodingRounds ==
    (cin.fn = "format_set_volume" /\ cout.kind = "frame") =>
        /\ RoundedNative(cin.volume) \in 0..MAX_VOLUME
        /\ cout.frame = << "*", "Z", "0" >> \o FormatNat(cin.zone)
                          \o << "V", "O", "L" >>
                          \o Format02(RoundedNative(cin.volume)) \o << EOL >>

\* C17: volume round trip: for every zone and every integer percentage in
\* 0..100, the percentage decoded from the report of the native value that
\* set_volume wrote differs from the requested one by at most one native
\* step (100/78).
C17_VolumeRoundTrip ==
    (cin.fn = "format_set_volume" /\ cin.volume \in 0..100
        /\ cout.kind = "readback") =>
        /\ cout.status.kind = "ZoneStatus"
        /\ ~cout.status.mute
        /\ WithinOneStep(cout.status.volume, Rat(cin.volume, 1))

\* 41 percent has been written as native 31 and read back as 3100/78, about
\* 1.26 below.
C17_Witness ==
    /\ cin.fn = "format_set_volume" /\ cin.volume = 41 /\ cin.zone = 6
    /\ cout.kind = "readback"
    /\ cout.frame = << "*", "Z", "0", "6", "V", "O", "L", "3", "1", EOL >>
    /\ cout.status = ZoneStatus(6, Rat(3100, MAX_VOLUME), TRUE, FALSE, 1)

\* '*Z0{z}SRC{s}\r' for a zone and a source id of one digit each
SourceFrame(z, id) ==
    << "*", "Z", "0", Digits[z + 1], "S", "R", "C", Digits[id + 1], EOL >>

\* C18: source encoding clamps and never rejects: for every zone and every
\* integer source id the SRC frame carries clamp(id, 0, 6); ids below 0 give
\* the frame of id 0 and ids above 6 the frame of id 6.
C18_SourceClamps ==
    (cin.fn = "format_set_source" /\ cout # Pending) =>
        /\ cout.kind = "frame"
        /\ cin.source \in 0..6 => cout.frame = SourceFrame(cin.zone, cin.source)
        /\ cin.source < 0 => cout.frame = SourceFrame(cin.zone, 0)
        /\ cin.source > 6 => cout.frame = SourceFrame(cin.zone, 6)

\* Source id 9 has been encoded for zone 2 as the frame of id 6.
C18_Witness ==
    /\ cin.fn = "format_set_source" /\ cin.zone = 2 /\ cin.source = 9
    /\ cout.kind = "frame"
    /\ cout.frame = << "*", "Z", "0", "2", "S", "R", "C", "6", EOL >>

\* C19: zones are isolated: an operation on zone z, whether it succeeds,
\* times out or fails, changes neither the snapshot slot nor the last known
\* entity state of any other zone, and restore changes no snapshot slot.
\* (zlast' names the zone an entity method was called on in the step.)
C19_ZonesIsolated ==
    [][ /\ \A y \in Zones :
             zlast'.zone # y => (snap'[y] = snap[y] /\ ent'[y] = ent[y])
        /\ zlast'.op = "restore" => snap' = snap ]_vars

\* Zone 1 has been captured and then polled while the slot and the entity
\* state of zone 2 are still empty.
C19_Witness ==
    /\ zlast.op = "update" /\ zlast.zone = 1 /\ zlast.got = "ZoneStatus"
    /\ snap[1] # None /\ ent[1].state # None
    /\ snap[2] = None /\ ent[2].state = None /\ dev[2].power

\* C20 (as claimed): every ZoneStatus the decoder produces has its zone in
\* 1..6, its source in 1..6 and its volume in 0..100, for every reply string
\* that matches a reply pattern.
C20_DecodedRanges ==
    (cin.fn = "from_string" /\ cout.kind = "ZoneStatus") =>
        /\ cout.zone \in 1..6
        /\ cout.source \in 1..6
        /\ cout.volume.num >= 0
        /\ cout.volume.num <= 100 * cout.volume.den

\* C21: a poll (update) whose status transaction times out returns without
\* raising and leaves the entity's power state, volume, mute and source as
\* they were before the poll.
C21_TimedOutPollKeepsState ==
    [][ (zcalls' # zcalls /\ zlast'.op = "update" /\ zlast'.got = "Timeout") =>
            (zlast'.exc = "none" /\ ent' = ent) ]_vars

\* A poll of a zone has timed out after an earlier poll had filled the
\* entity's state.
C21_Witness ==
    /\ zlast.op = "update" /\ zlast.got = "Timeout" /\ zlast.exc = "none"
    /\ ent[zlast.zone].state # None
    /\ ent[zlast.zone].volume # None

\* Caller c is inside restore_zone: it has the controller lock and has not
\* returned or raised yet.
RestoreRunning(c) ==
    call[c].name = "restore_zone" /\ pc[c] \notin {"idle", "acquire"}

\* C22: restore_zone holds the controller lock from its first replay step to
\* its last, in both modes: while a caller's restore_zone is running, the lock
\* is that caller's and the frames it has written so far are the latest on
\* the connection, no other caller's request among or after them.
C22_RestoreHoldsLock ==
    \A c \in Callers :
        RestoreRunning(c) =>
            /\ mode = "sync" => rlock.owner = c
            /\ mode = "async" => alock = c
            /\ call[c].writes <= Len(wire)
            /\ \A i \in 1..Len(wire) :
                  i > Len(wire) - call[c].writes => wire[i].c = c

\* A restore_zone has written its second replay frame while another caller,
\* which called after it, waits for the lock.
C22_Witness ==
    \E c, d \in Callers :
        /\ c # d
        /\ RestoreRunning(c) /\ call[c].writes = 2 /\ pc[c] = "read"
        /\ pc[d] = "acquire"
        /\ wire[Len(wire)].c = c /\ wire[Len(wire)].op = "set_mute"

\* C23: the locking is deadlock-free. Whenever some caller is inside an
\* operation (waiting for a lock or holding one), some caller can take a step
\* of its own, so it is never the case that every caller waits for a lock. In
\* blocking mode the lock's count is the nesting depth of its owner (a nested
\* synchronized call re-enters); in event-driven mode the protocol lock is
\* held only by the holder of the controller lock (controller first, protocol
\* second, released in reverse), and a holder is never among the waiters.
C23_NoLockDeadlock ==
    /\ (\E c \in Callers : pc[c] # "idle") =>
           (\E d \in Callers : pc[d] # "idle" /\ ENABLED Step(d))
    /\ mode = "sync" =>
           /\ rlock.owner = NoOne <=> rlock.count = 0
           /\ rlock.owner # NoOne =>
                 /\ pc[rlock.owner] \notin {"idle", "acquire"}
                 /\ pc[rlock.owner] # "body" => rlock.count = Depth(rlock.owner)
                 /\ pc[rlock.owner] = "body" => rlock.count = 1
    /\ mode = "async" =>
           /\ plock # NoOne => alock = plock
           /\ alock # NoOne => pc[alock] \notin {"idle", "acquire"}
           /\ \A c \in Callers :
                 pc[c] = "acquire" <=> (\E i \in 1..Len(waiters) : waiters[i] = c)

\* C23 witness: in blocking mode a restore_zone is inside a nested set_* call,
\* the lock entered twice, while the other caller waits for the lock.
C23_Witness ==
    \E c, d \in Callers :
        /\ c # d
        /\ mode = "sync"
        /\ call[c].name = "restore_zone" /\ call[c].step >= 2
        /\ pc[c] = "read"
        /\ rlock = [owner |-> c, count |-> 2]
        /\ pc[d] = "acquire"

\* C9 (as claimed): for the same operation and the same inbound bytes, in any
\* chunks, both modes return the same text or both fail with Timeout.
C9_SameFraming ==
    (fsync.out # NoOut /\ fasync.out # NoOut) =>
        /\ fsync.out.kind = fasync.out.kind
        /\ fsync.out.kind = "ok" => fsync.out.args = fasync.out.args

====
